---- MODULE Spec2Model ----
(***************************************************************************)
(* A model of package block of gcode-core: Block, its constructor New, its *)
(* parser Parse, its line serialisers and its checksum operations.         *)
(*                                                                         *)
(* A text is a sequence of one-character strings, so that the tokenizer,   *)
(* the number conversions and the byte-wise hash engines work on the very  *)
(* characters the Go code works on.                                        *)
(***************************************************************************)
EXTENDS Integers, Sequences, FiniteSets, TLC

(***************************************************************************)
(* Bounds of the model.                                                    *)
(***************************************************************************)
\* longest line made of up to MaxTokens tokens of TokenPool
MaxTokens == 3
\* longest line enumerated character by character over RawAlphabet
MaxRawLen == 3
\* most option callbacks handed to New
MaxOptions == 2

MaxQuotedLen == 4

(***************************************************************************)
(* Characters and bytes.                                                   *)
(***************************************************************************)
\* the letters, in byte order: "A" is byte 65 and "a" is byte 97
UpperLetters ==
  << "A", "B", "C", "D", "E", "F", "G", "H", "I", "J", "K", "L", "M",
     "N", "O", "P", "Q", "R", "S", "T", "U", "V", "W", "X", "Y", "Z" >>

LowerLetters ==
  << "a", "b", "c", "d", "e", "f", "g", "h", "i", "j", "k", "l", "m",
     "n", "o", "p", "q", "r", "s", "t", "u", "v", "w", "x", "y", "z" >>

Digits == << "0", "1", "2", "3", "4", "5", "6", "7", "8", "9" >>

DigitSet == { Digits[i] : i \in 1..10 }

UpperSet == { UpperLetters[i] : i \in 1..26 }

LowerSet == { LowerLetters[i] : i \in 1..26 }

IsDigit(c) == c \in DigitSet

IsUpperLetter(c) == c \in UpperSet

IsLowerLetter(c) == c \in LowerSet

\* the other characters of the model's texts, each with its byte
Punctuation ==
  { <<"\t", 9>>, <<"\n", 10>>, <<"\r", 13>>, <<" ", 32>>, <<"\"", 34>>,
    <<"*", 42>>, <<"+", 43>>, <<"-", 45>>, <<".", 46>>, <<";", 59>>,
    <<"?", 63>> }

Chars == DigitSet \cup UpperSet \cup LowerSet \cup { p[1] : p \in Punctuation }

\* the byte of every character ([]byte(string) on ASCII text)
ByteOf ==
  [c \in Chars |->
     IF c \in DigitSet THEN 47 + (CHOOSE i \in 1..10 : Digits[i] = c)
     ELSE IF c \in UpperSet THEN 64 + (CHOOSE i \in 1..26 : UpperLetters[i] = c)
     ELSE IF c \in LowerSet THEN 96 + (CHOOSE i \in 1..26 : LowerLetters[i] = c)
     ELSE (CHOOSE p \in Punctuation : p[1] = c)[2]]

Ord(c) == ByteOf[c]

DigitVal(c) == ByteOf[c] - 48

\* unicode.IsSpace restricted to ASCII text
IsSpace(c) == c \in {" ", "\t", "\n", "\r"}

(***************************************************************************)
(* Package strings.                                                        *)
(***************************************************************************)
RECURSIVE TrimLeft(_)
TrimLeft(s) ==
  IF s = << >> THEN s
  ELSE IF IsSpace(Head(s)) THEN TrimLeft(Tail(s))
  ELSE s

RECURSIVE TrimRight(_)
TrimRight(s) ==
  IF s = << >> THEN s
  ELSE IF IsSpace(s[Len(s)]) THEN TrimRight(SubSeq(s, 1, Len(s) - 1))
  ELSE s

\* strings.TrimSpace
TrimSpace(s) == TrimRight(TrimLeft(s))

UpperChar(c) == IF IsLowerLetter(c) THEN UpperLetters[ByteOf[c] - 96] ELSE c

\* strings.ToUpper
ToUpper(s) == [i \in 1..Len(s) |-> UpperChar(s[i])]

\* strings.IndexRune(s, c): the 0-based index of the first c in s, or -1
IndexRune(s, c) ==
  IF \E i \in 1..Len(s) : s[i] = c
  THEN (CHOOSE i \in 1..Len(s) : s[i] = c /\ \A j \in 1..(i - 1) : s[j] # c) - 1
  ELSE -1

\* strings.Join
RECURSIVE Join(_, _)
Join(values, sep) ==
  IF values = << >> THEN << >>
  ELSE IF Len(values) = 1 THEN values[1]
  ELSE values[1] \o sep \o Join(Tail(values), sep)

\* s[i:] of Go, i counted from 0
SliceFrom(s, i) == SubSeq(s, i + 1, Len(s))

\* s[:i] of Go, i counted from 0
SliceTo(s, i) == SubSeq(s, 1, i)

(***************************************************************************)
(* Package strconv and the fmt verbs the gcode values are printed with.    *)
(***************************************************************************)
MinInt32 == -(2^30) - 2^30

MaxInt32 == (2^30 - 1) + 2^30

AllDigits(s) == \A i \in 1..Len(s) : IsDigit(s[i])

HasSign(s) == s # << >> /\ Head(s) \in {"+", "-"}

\* the digits of s accumulated below zero, so that -2^31 is reached without
\* leaving the 32-bit range; "range" once the value leaves it
RECURSIVE NegAccumulate(_, _)
NegAccumulate(s, acc) ==
  IF s = << >> THEN [ok |-> TRUE, val |-> acc]
  ELSE LET d == DigitVal(Head(s))
           cut == MinInt32 \div 10 + 1
       IN IF acc < cut \/ (acc = cut /\ d > 8)
          THEN [ok |-> FALSE, val |-> 0]
          ELSE NegAccumulate(Tail(s), acc * 10 - d)

\* strconv.ParseInt(s, 10, 32): an optional sign, then decimal digits, in range
ParseInt(s) ==
  LET body == IF HasSign(s) THEN Tail(s) ELSE s
      neg == HasSign(s) /\ Head(s) = "-"
  IN IF body = << >> \/ ~AllDigits(body) THEN [ok |-> FALSE, val |-> 0]
     ELSE LET r == NegAccumulate(body, 0)
          IN IF ~r.ok THEN r
             ELSE IF neg THEN r
             ELSE IF r.val = MinInt32 THEN [ok |-> FALSE, val |-> 0]
             ELSE [ok |-> TRUE, val |-> -r.val]

\* the decimal digits of n <= 0, without sign
RECURSIVE NegDigits(_)
NegDigits(n) ==
  LET d == (10 - (n % 10)) % 10
      rest == (n + d) \div 10
  IN IF rest = 0 THEN << Digits[d + 1] >>
     ELSE NegDigits(rest) \o << Digits[d + 1] >>

\* fmt's %d of an int32
FormatInt(v) == IF v < 0 THEN <<"-">> \o NegDigits(v) ELSE NegDigits(-v)

(***************************************************************************)
(* A uint32 is kept as two 16-bit halves, hi * 2^16 + lo, which holds the   *)
(* values above 2^31 that a converted negative int32 takes.                *)
(***************************************************************************)
Half == 2^16

\* uint32(v) of an int32 v: v mod 2^32
Uint32OfInt32(v) ==
  IF v >= 0 THEN [hi |-> v \div Half, lo |-> v % Half]
  ELSE LET w == v - MinInt32
       IN [hi |-> (w \div Half) + Half \div 2, lo |-> w % Half]

\* uint32(b) of a byte
Uint32OfByte(b) == [hi |-> 0, lo |-> b]

\* fmt's %d of a uint32: long division of the two halves by ten
RECURSIVE FormatUint32(_)
FormatUint32(u) ==
  LET t == (u.hi % 10) * Half + u.lo
      q == [hi |-> u.hi \div 10, lo |-> t \div 10]
      d == t % 10
  IN IF q.hi = 0 /\ q.lo = 0 THEN << Digits[d + 1] >>
     ELSE FormatUint32(q) \o << Digits[d + 1] >>

(***************************************************************************)
(* float32.  A finite float32 is [neg, mant, exp] with value               *)
(* mant / 2^exp, mant = 0 or 2^23 <= mant < 2^24; exp is negative for the  *)
(* values from 2^24 on.  The texts of the model are plain decimals (sign,  *)
(* digits, one point) with at most ten integer and eight fraction digits;  *)
(* exponents, hexadecimal floats, infinities and NaN are outside the       *)
(* model's inputs.                                                         *)
(***************************************************************************)
RECURSIVE DigitsValue(_, _)
DigitsValue(s, acc) ==
  IF s = << >> THEN acc ELSE DigitsValue(Tail(s), acc * 10 + DigitVal(Head(s)))

\* the decimal syntax strconv.ParseFloat accepts: [sign] digits [. digits],
\* with at least one digit
DecimalSyntax(s) ==
  LET body == IF HasSign(s) THEN Tail(s) ELSE s
      dot == IndexRune(body, ".")
      ip == IF dot = -1 THEN body ELSE SliceTo(body, dot)
      fp == IF dot = -1 THEN << >> ELSE SliceFrom(body, dot + 1)
  IN [ok |-> AllDigits(ip) /\ AllDigits(fp) /\ Len(ip) + Len(fp) > 0
             /\ Len(ip) <= 10 /\ Len(fp) <= 8,
      neg |-> HasSign(s) /\ Head(s) = "-",
      ip |-> ip,
      fp |-> fp]

\* the bits of ip + r/den, most significant first, until 24 are significant;
\* then round to nearest, ties to even
RECURSIVE RoundToFloat32(_, _, _, _)
RoundToFloat32(m, r, den, e) ==
  IF m = 0 /\ r = 0 THEN [mant |-> 0, exp |-> 0]
  ELSE IF m < 2^23
  THEN RoundToFloat32(2 * m + (IF 2 * r >= den THEN 1 ELSE 0), (2 * r) % den, den, e + 1)
  ELSE LET up == 2 * r > den \/ (2 * r = den /\ m % 2 = 1)
           m2 == IF up THEN m + 1 ELSE m
       IN IF m2 = 2^24 THEN [mant |-> 2^23, exp |-> e - 1]
          ELSE [mant |-> m2, exp |-> e]

\* strconv.ParseFloat(s, 32) followed by float32(...)
\* decimal digits without their leading zeros
RECURSIVE StripZeros(_)
StripZeros(ds) == IF ds # << >> /\ Head(ds) = "0" THEN StripZeros(Tail(ds)) ELSE ds

\* the digits stand for a number from 2^24 on, which has more than 24 bits
FromTwoTo24(ds) == Len(StripZeros(ds)) > 8 \/ DigitsValue(ds, 0) >= 2^24

\* half of the number the digits ds stand for, c * 10^Len(ds) added: the
\* digits of the quotient and the remainder
RECURSIVE HalveDigits(_, _)
HalveDigits(ds, c) ==
  IF ds = << >> THEN [q |-> << >>, r |-> c]
  ELSE LET cur == c * 10 + DigitVal(Head(ds))
           rest == HalveDigits(Tail(ds), cur % 2)
       IN [q |-> << Digits[(cur \div 2) + 1] >> \o rest.q, r |-> rest.r]

\* the last step of the rounding: m has 24 bits, k bits were shifted out, of
\* which round is the last and sticky tells whether any before it was set
RoundShifted(m, k, round, sticky) ==
  IF round = 1 /\ (sticky \/ m % 2 = 1)
  THEN IF m + 1 = 2^24 THEN [mant |-> 2^23, exp |-> -(k + 1)]
       ELSE [mant |-> m + 1, exp |-> -k]
  ELSE [mant |-> m, exp |-> -k]

\* the number the digits stand for, from 2^24 on, halved until 24 bits are
\* left, then rounded to nearest, ties to even
RECURSIVE RoundDigitsToFloat32(_, _, _, _)
RoundDigitsToFloat32(ds, k, round, sticky) ==
  IF ~FromTwoTo24(ds) THEN RoundShifted(DigitsValue(ds, 0), k, round, sticky)
  ELSE RoundDigitsToFloat32(HalveDigits(ds, 0).q, k + 1, HalveDigits(ds, 0).r,
                            sticky \/ round = 1)

Float32(neg, f) == [ok |-> TRUE, neg |-> neg, mant |-> f.mant, exp |-> f.exp]

\* the float32 nearest to the decimal d
Float32OfDecimal(d) ==
  IF ~d.ok THEN [ok |-> FALSE, neg |-> FALSE, mant |-> 0, exp |-> 0]
  ELSE IF FromTwoTo24(d.ip)
  THEN Float32(d.neg, RoundDigitsToFloat32(d.ip, 0, 0, \E i \in 1..Len(d.fp) : d.fp[i] # "0"))
  ELSE Float32(d.neg, RoundToFloat32(DigitsValue(d.ip, 0), DigitsValue(d.fp, 0),
                                     10^Len(d.fp), 0))

ParseFloat(s) == Float32OfDecimal(DecimalSyntax(s))

\* the value in tenths, rounded to nearest, ties to even
Tenths(f) ==
  IF f.exp >= 29 THEN 0
  ELSE LET p == 2^f.exp
           q == (10 * f.mant) \div p
           rem == (10 * f.mant) % p
       IN IF 2 * rem > p \/ (2 * rem = p /\ q % 2 = 1) THEN q + 1 ELSE q

\* twice the number the digits ds stand for: its digits below 10^Len(ds) and
\* the carry
RECURSIVE DoubleDigits(_)
DoubleDigits(ds) ==
  IF ds = << >> THEN [q |-> << >>, c |-> 0]
  ELSE LET rest == DoubleDigits(Tail(ds))
           cur == 2 * DigitVal(Head(ds)) + rest.c
       IN [q |-> << Digits[(cur % 10) + 1] >> \o rest.q, c |-> cur \div 10]

\* the digits of the number ds stands for times 2^k
RECURSIVE TimesTwoTo(_, _)
TimesTwoTo(ds, k) ==
  IF k = 0 THEN ds
  ELSE TimesTwoTo((IF DoubleDigits(ds).c = 1 THEN << "1" >> ELSE << >>) \o DoubleDigits(ds).q,
                  k - 1)

\* fmt's %.1f of a float32: always one fraction digit
FormatFloat(f) ==
  IF f.exp < 0
  THEN (IF f.neg THEN <<"-">> ELSE << >>)
         \o TimesTwoTo(NegDigits(-f.mant), -f.exp) \o << ".", "0" >>
  ELSE LET t == Tenths(f)
       IN (IF f.neg THEN <<"-">> ELSE << >>)
            \o NegDigits(-(t \div 10)) \o <<".">> \o << Digits[(t % 10) + 1] >>

(***************************************************************************)
(* Package word and package address: which bytes are words, which texts    *)
(* are quoted-string addresses.                                            *)
(***************************************************************************)
\* word validation: the letters A..Z and the checksum word
WordValid(w) == IsUpperLetter(w) \/ w = "*"

IsControl(c) == c \in {"\t", "\r", "\n"}

\* QuoteStep without the doubled quote: a quote always closes the string
QuoteStepNoDoubling(st, c) ==
  CASE st = "Start" -> IF c = "\"" THEN "InQuote" ELSE "QuoteError"
    [] st = "InQuote" -> IF c = "\"" THEN "SawQuote"
                         ELSE IF IsControl(c) THEN "InvalidChars"
                         ELSE "InQuote"
    [] st = "SawQuote" -> "QuoteError"
    [] OTHER -> st

\* one step of the quoted-string validator from state st on character c
QuoteStep(st, c) ==
  CASE st = "Start" -> IF c = "\"" THEN "InQuote" ELSE "QuoteError"
    [] st = "InQuote" -> IF c = "\"" THEN "SawQuote"
                         ELSE IF IsControl(c) THEN "InvalidChars"
                         ELSE "InQuote"
    [] st = "SawQuote" -> IF c = "\"" THEN "InQuote" ELSE "QuoteError"
    [] OTHER -> st

RECURSIVE QuoteRun(_, _)
QuoteRun(st, s) == IF s = << >> THEN st ELSE QuoteRun(QuoteStep(st, Head(s)), Tail(s))

\* the verdict on a string address: "End" when well formed, else the error
StringAddressVerdict(s) ==
  IF Len(s) < 2 THEN "TooShort"
  ELSE LET st == QuoteRun("Start", s)
       IN IF st = "SawQuote" THEN "End"
          ELSE IF st = "InQuote" THEN "QuoteError"
          ELSE st

(***************************************************************************)
(* Package gcode: a gcode is a word with at most one typed address.        *)
(***************************************************************************)
\* a nil interface value
NilGcode == [kind |-> "nil"]

Unaddressable(w) == [kind |-> "none", word |-> w]

GcodeInt32(w, v) == [kind |-> "int32", word |-> w, val |-> v]

GcodeUint32(w, u) == [kind |-> "uint32", word |-> w, hi |-> u.hi, lo |-> u.lo]

GcodeFloat32(w, f) == [kind |-> "float32", word |-> w, neg |-> f.neg, mant |-> f.mant, exp |-> f.exp]

GcodeString(w, s) == [kind |-> "string", word |-> w, text |-> s]

\* Gcoder.String(): the word followed by the address in its canonical text
GcodeText(g) ==
  CASE g.kind = "none" -> << g.word >>
    [] g.kind = "int32" -> << g.word >> \o FormatInt(g.val)
    [] g.kind = "uint32" -> << g.word >> \o FormatUint32(g)
    [] g.kind = "float32" -> << g.word >> \o FormatFloat(g)
    [] g.kind = "string" -> << g.word >> \o g.text

\* AddresableGcoder.Compare: same word and same address
Compare(a, b) == a.kind = b.kind /\ a = b

(***************************************************************************)
(* gcode.GcoderFactory.  A factory validates the word, and the text of a   *)
(* string address, and builds the gcode; an alternate factory may refuse   *)
(* some constructors altogether (refuses).  A failed construction returns  *)
(* a nil gcode and an error.                                               *)
(***************************************************************************)
NilFactory == [nil |-> TRUE, refuses |-> {}]

\* &gcodefactory.GcodeFactory{}
DefaultFactory == [nil |-> FALSE, refuses |-> {}]

\* a factory whose validation policy admits no uint32 address
NoUint32Factory == [nil |-> FALSE, refuses |-> {"Uint32"}]

Built(g) == [ok |-> TRUE, gc |-> g]

Failed == [ok |-> FALSE, gc |-> NilGcode]

NewUnaddressableGcode(f, w) ==
  IF "None" \in f.refuses \/ ~WordValid(w) THEN Failed ELSE Built(Unaddressable(w))

NewAddressableGcodeInt32(f, w, v) ==
  IF "Int32" \in f.refuses \/ ~WordValid(w) THEN Failed ELSE Built(GcodeInt32(w, v))

NewAddressableGcodeUint32(f, w, u) ==
  IF "Uint32" \in f.refuses \/ ~WordValid(w) THEN Failed ELSE Built(GcodeUint32(w, u))

NewAddressableGcodeFloat32(f, w, v) ==
  IF "Float32" \in f.refuses \/ ~WordValid(w) THEN Failed ELSE Built(GcodeFloat32(w, v))

NewAddressableGcodeString(f, w, s) ==
  IF "String" \in f.refuses \/ ~WordValid(w) \/ StringAddressVerdict(s) # "End"
  THEN Failed
  ELSE Built(GcodeString(w, s))

(***************************************************************************)
(* hash.Hash engines with a one-byte digest.  An engine is its kind and    *)
(* its accumulator; Write never fails (the contract of hash.Hash).         *)
(***************************************************************************)
NilHash == [kind |-> "nil", acc |-> 0]

RECURSIVE Xor8(_, _, _)
\* the bitwise exclusive or of the low n bits of a and b
Xor8(a, b, n) ==
  IF n = 0 THEN 0
  ELSE ((a + b) % 2) + 2 * Xor8(a \div 2, b \div 2, n - 1)

\* hash.Hash.Reset
HashReset(h) == [h EXCEPT !.acc = 0]

RECURSIVE HashWrite(_, _)
\* hash.Hash.Write: the sum of the bytes modulo 256, or their exclusive or
HashWrite(h, s) ==
  IF s = << >> THEN h
  ELSE HashWrite([h EXCEPT !.acc = IF h.kind = "sum"
                                   THEN (h.acc + Ord(Head(s))) % 256
                                   ELSE Xor8(h.acc, Ord(Head(s)), 8)],
                 Tail(s))

\* hash.Hash.Sum(nil): the digest, one byte
HashSum(h) == << h.acc >>

(***************************************************************************)
(* Block and its methods.                                                  *)
(***************************************************************************)
BLOCK_SEPARATOR == << " " >>

\* the fields of a Block; a nil slice of parameters is the empty sequence
MakeBlock(ln, cmd, params, chk, comment, h, f) ==
  [lineNumber |-> ln, command |-> cmd, parameters |-> params, checksum |-> chk,
   comment |-> comment, hash |-> h, gcodeFactory |-> f]

\* &Block{}: every field at its zero value
ZeroBlock == MakeBlock(NilGcode, NilGcode, << >>, NilGcode, << >>, NilHash, NilFactory)

\* ToLine with the line number left out
ToLineNoLineNumber(b) ==
  LET values ==
        (IF b.command # NilGcode THEN << GcodeText(b.command) >> ELSE << >>)
          \o [i \in 1..Len(b.parameters) |-> GcodeText(b.parameters[i])]
  IN Join(values, BLOCK_SEPARATOR)

\* ToLine with the check section and the comment added
ToLineCoversChecksum(b) ==
  LET values ==
        (IF b.lineNumber # NilGcode THEN << GcodeText(b.lineNumber) >> ELSE << >>)
          \o (IF b.command # NilGcode THEN << GcodeText(b.command) >> ELSE << >>)
          \o [i \in 1..Len(b.parameters) |-> GcodeText(b.parameters[i])]
          \o (IF b.checksum # NilGcode THEN << GcodeText(b.checksum) >> ELSE << >>)
          \o (IF Len(b.comment) > 0 THEN << b.comment >> ELSE << >>)
  IN Join(values, BLOCK_SEPARATOR)

ToLine(b) ==
  LET values ==
        (IF b.lineNumber # NilGcode THEN << GcodeText(b.lineNumber) >> ELSE << >>)
          \o (IF b.command # NilGcode THEN << GcodeText(b.command) >> ELSE << >>)
          \o [i \in 1..Len(b.parameters) |-> GcodeText(b.parameters[i])]
  IN Join(values, BLOCK_SEPARATOR)

\* ToLineWithCheck with the checksum put right after the line
ToLineWithCheckUnseparated(b) ==
  IF b.checksum # NilGcode THEN ToLine(b) \o GcodeText(b.checksum) ELSE ToLine(b)

ToLineWithCheck(b) ==
  IF b.checksum # NilGcode
  THEN Join(<< ToLine(b), GcodeText(b.checksum) >>, BLOCK_SEPARATOR)
  ELSE ToLine(b)

ToLineWithCheckAndComments(b) ==
  IF Len(b.comment) > 0
  THEN Join(<< ToLineWithCheck(b), b.comment >>, BLOCK_SEPARATOR)
  ELSE ToLineWithCheck(b)

String(b) == ToLineWithCheckAndComments(b)

LineNumber(b) == b.lineNumber

Command(b) == b.command

Parameters(b) == b.parameters

Checksum(b) == b.checksum

Comment(b) == b.comment

\* what a call hands back: how it ended ("ok", "error", or "panic" when the
\* process aborts), the gcode and the boolean it returned, and the hash
\* engine as the call left it
Outcome(status, gc, ok, h) == [status |-> status, gc |-> gc, ok |-> ok, hash |-> h]

\* CalculateChecksum without the Reset of the hash engine
CalculateChecksumNoReset(b) ==
  IF b.hash = NilHash THEN Outcome("panic", NilGcode, FALSE, b.hash)
  ELSE LET h == HashWrite(b.hash, ToLine(b))
       IN IF b.gcodeFactory.nil THEN Outcome("panic", NilGcode, FALSE, h)
          ELSE LET r == NewAddressableGcodeUint32(b.gcodeFactory, "*",
                                                  Uint32OfByte(HashSum(h)[1]))
               IN IF ~r.ok THEN Outcome("error", NilGcode, FALSE, h)
                  ELSE Outcome("ok", r.gc, FALSE, h)

CalculateChecksum(b) ==
  IF b.hash = NilHash THEN Outcome("panic", NilGcode, FALSE, b.hash)
  ELSE LET h == HashWrite(HashReset(b.hash), ToLine(b))
       IN IF b.gcodeFactory.nil THEN Outcome("panic", NilGcode, FALSE, h)
          ELSE LET r == NewAddressableGcodeUint32(b.gcodeFactory, "*",
                                                  Uint32OfByte(HashSum(h)[1]))
               IN IF ~r.ok THEN Outcome("error", NilGcode, FALSE, h)
                  ELSE Outcome("ok", r.gc, FALSE, h)

\* UpdateChecksum storing what the calculation returned even when it failed
UpdateChecksumStoresFailure(b) ==
  [out |-> Outcome(CalculateChecksum(b).status, NilGcode, FALSE, CalculateChecksum(b).hash),
   checksum |-> CalculateChecksum(b).gc]

\* the outcome of UpdateChecksum and the checksum the Block holds after it
UpdateChecksum(b) ==
  LET r == CalculateChecksum(b)
  IN [out |-> Outcome(r.status, NilGcode, FALSE, r.hash),
      checksum |-> IF r.status = "ok" THEN r.gc ELSE b.checksum]

\* VerifyChecksum calculating on the hash engine as the last call left it
VerifyChecksumSkipsReset(b) ==
  IF b.checksum = NilGcode THEN Outcome("error", NilGcode, FALSE, b.hash)
  ELSE IF CalculateChecksumNoReset(b).status # "ok"
  THEN Outcome(CalculateChecksumNoReset(b).status, NilGcode, FALSE,
               CalculateChecksumNoReset(b).hash)
  ELSE Outcome("ok", NilGcode, Compare(b.checksum, CalculateChecksumNoReset(b).gc),
               CalculateChecksumNoReset(b).hash)

\* VerifyChecksum without the test for a stored checksum
VerifyChecksumNoGuard(b) ==
  LET r == CalculateChecksum(b)
  IN IF r.status # "ok" THEN Outcome(r.status, NilGcode, FALSE, r.hash)
     ELSE Outcome("ok", NilGcode, Compare(b.checksum, r.gc), r.hash)

VerifyChecksum(b) ==
  IF b.checksum = NilGcode THEN Outcome("error", NilGcode, FALSE, b.hash)
  ELSE LET r == CalculateChecksum(b)
       IN IF r.status # "ok" THEN Outcome(r.status, NilGcode, FALSE, r.hash)
          ELSE Outcome("ok", NilGcode, Compare(b.checksum, r.gc), r.hash)

(***************************************************************************)
(* The constructor New.  An option callback is the sequence of setter      *)
(* calls it makes on the configuration; each accepted call stages one      *)
(* action, and a refused call makes the option return the error.           *)
(***************************************************************************)
Setter(field, gc, params, isNil, text, h, f) ==
  [field |-> field, gc |-> gc, params |-> params, isNil |-> isNil, text |-> text,
   hash |-> h, factory |-> f]

SetLineNumber(g) == Setter("lineNumber", g, << >>, g = NilGcode, << >>, NilHash, NilFactory)

SetParameters(ps, isNil) == Setter("parameters", NilGcode, ps, isNil, << >>, NilHash, NilFactory)

SetChecksum(g) == Setter("checksum", g, << >>, g = NilGcode, << >>, NilHash, NilFactory)

SetComment(t) == Setter("comment", NilGcode, << >>, FALSE, t, NilHash, NilFactory)

SetHash(h) == Setter("hash", NilGcode, << >>, h = NilHash, << >>, h, NilFactory)

SetGcodeFactory(f) == Setter("gcodeFactory", NilGcode, << >>, f.nil, << >>, NilHash, f)

\* Block.setChecksum: stores the hash engine, refuses nil
setChecksum(b, h) ==
  IF h = NilHash THEN [ok |-> FALSE, block |-> b]
  ELSE [ok |-> TRUE, block |-> [b EXCEPT !.hash = h]]

\* Block.setGcodeFactory: stores the factory, refuses nil
setGcodeFactory(b, f) ==
  IF f.nil THEN [ok |-> FALSE, block |-> b]
  ELSE [ok |-> TRUE, block |-> [b EXCEPT !.gcodeFactory = f]]

\* one staged action applied to the Block
ApplyAction(b, a) ==
  CASE a.field = "lineNumber" -> [ok |-> TRUE, block |-> [b EXCEPT !.lineNumber = a.gc]]
    [] a.field = "parameters" -> [ok |-> TRUE, block |-> [b EXCEPT !.parameters = a.params]]
    [] a.field = "checksum" -> [ok |-> TRUE, block |-> [b EXCEPT !.checksum = a.gc]]
    [] a.field = "comment" -> [ok |-> TRUE, block |-> [b EXCEPT !.comment = a.text]]
    [] a.field = "hash" -> setChecksum(b, a.hash)
    [] a.field = "gcodeFactory" -> setGcodeFactory(b, a.factory)

RECURSIVE ApplyActionsLastFirst(_, _)
\* ApplyActions with the staged actions taken from the last to the first
ApplyActionsLastFirst(b, actions) ==
  IF actions = << >> THEN [ok |-> TRUE, block |-> b]
  ELSE LET r == ApplyAction(b, actions[Len(actions)])
       IN IF ~r.ok THEN r
          ELSE ApplyActionsLastFirst(r.block, SubSeq(actions, 1, Len(actions) - 1))

RECURSIVE ApplyActions(_, _)
ApplyActions(b, actions) ==
  IF actions = << >> THEN [ok |-> TRUE, block |-> b]
  ELSE LET r == ApplyAction(b, Head(actions))
       IN IF ~r.ok THEN r ELSE ApplyActions(r.block, Tail(actions))

\* the option callback run on the configuration: the staged actions after it,
\* or the error of the first setter that refused its argument
RunOption(staged, option) ==
  IF \E i \in 1..Len(option) : option[i].isNil
  THEN [ok |-> FALSE, staged |-> staged]
  ELSE [ok |-> TRUE, staged |-> staged \o option]

RECURSIVE NewOptions(_, _, _)
\* the loop of New over its options: after each option, every action staged
\* so far is applied to the Block
NewOptions(b, staged, options) ==
  IF options = << >> THEN [status |-> "ok", block |-> b]
  ELSE LET o == RunOption(staged, Head(options))
       IN IF ~o.ok THEN [status |-> "error", block |-> ZeroBlock]
          ELSE LET r == ApplyActions(b, o.staged)
               IN IF ~r.ok THEN [status |-> "error", block |-> ZeroBlock]
                  ELSE NewOptions(r.block, o.staged, Tail(options))

New(command, options) ==
  IF command = NilGcode THEN [status |-> "error", block |-> ZeroBlock]
  ELSE NewOptions([ZeroBlock EXCEPT !.command = command], << >>, options)

(***************************************************************************)
(* Parse: normalisation of the source text.                                *)
(***************************************************************************)
\* the length of the run of white space s starts with
RECURSIVE SpaceRun(_)
SpaceRun(s) == IF s # << >> /\ IsSpace(Head(s)) THEN 1 + SpaceRun(Tail(s)) ELSE 0

RECURSIVE removeDuplicateSpaces(_)
\* every run of two or more white-space characters becomes one space
removeDuplicateSpaces(s) ==
  IF s = << >> THEN s
  ELSE LET n == SpaceRun(s)
       IN IF n >= 2 THEN << " " >> \o removeDuplicateSpaces(SliceFrom(s, n))
          ELSE << Head(s) >> \o removeDuplicateSpaces(Tail(s))

\* every line feed, tab and carriage return becomes a space
removeSpecialChars(s) == [i \in 1..Len(s) |-> IF IsControl(s[i]) THEN " " ELSE s[i]]

prepareSourceToParse(s) ==
  removeSpecialChars(removeDuplicateSpaces(ToUpper(TrimSpace(s))))

(***************************************************************************)
(* Parse: the tokenizer loop.                                              *)
(***************************************************************************)
separator == " "

\* TokenGcode with the float32 attempt made before the int32 attempt
TokenGcodeFloatFirst(f, pgcode) ==
  LET pword == pgcode[1]
      paddress == IF Len(pgcode) > 1 THEN SliceFrom(pgcode, 1) ELSE << >>
  IN IF Len(pgcode) > 1
     THEN LET valueInt == ParseInt(paddress)
              valueFloat == ParseFloat(paddress)
          IN IF valueFloat.ok THEN NewAddressableGcodeFloat32(f, pword, valueFloat)
             ELSE IF valueInt.ok THEN NewAddressableGcodeInt32(f, pword, valueInt.val)
             ELSE NewAddressableGcodeString(f, pword, paddress)
     ELSE NewUnaddressableGcode(f, pword)

\* the gcode of one token: its first byte is the word, the rest the address,
\* typed int32, else float32, else string; ok is FALSE when the factory
\* refuses the construction
TokenGcode(f, pgcode) ==
  LET pword == pgcode[1]
      paddress == IF Len(pgcode) > 1 THEN SliceFrom(pgcode, 1) ELSE << >>
  IN IF Len(pgcode) > 1
     THEN LET valueInt == ParseInt(paddress)
              valueFloat == ParseFloat(paddress)
          IN IF valueInt.ok THEN NewAddressableGcodeInt32(f, pword, valueInt.val)
             ELSE IF valueFloat.ok THEN NewAddressableGcodeFloat32(f, pword, valueFloat)
             ELSE NewAddressableGcodeString(f, pword, paddress)
     ELSE NewUnaddressableGcode(f, pword)

\* LoopStep leaving the separator it finds at the front where it is
LoopStepKeepsSeparator(f, st) ==
  IF st.i <= -1 THEN [st EXCEPT !.at = "break"]
  ELSE IF Len(st.pblock) = 0 THEN [st EXCEPT !.at = "break"]
  ELSE IF IndexRune(st.pblock, separator) = 0 THEN [st EXCEPT !.i = 0]
  ELSE [st EXCEPT !.i = -1, !.gcodes = Append(@, TokenGcode(f, st.pblock).gc),
                  !.at = "break"]

\* the loop's variables before its first iteration
LoopStart(pblock) == [pblock |-> pblock, i |-> 0, gcodes |-> << >>, at |-> "loop"]

\* one iteration of the loop: at is "loop" to go round again, "break" when
\* the loop is left, "return" when Parse returns the factory's error
LoopStep(f, st) ==
  IF st.i <= -1 THEN [st EXCEPT !.at = "break"]
  ELSE IF Len(st.pblock) = 0 THEN [st EXCEPT !.at = "break"]
  ELSE LET i == IndexRune(st.pblock, separator)
       IN IF i = 0 THEN [st EXCEPT !.pblock = SliceFrom(@, 1), !.i = i]
          ELSE LET pgcode == IF i <= -1 THEN st.pblock ELSE SliceTo(st.pblock, i)
                   r == TokenGcode(f, pgcode)
               IN IF ~r.ok THEN [st EXCEPT !.i = i, !.at = "return"]
                  ELSE IF i <= -1
                  THEN [st EXCEPT !.i = i, !.gcodes = Append(@, r.gc), !.at = "break"]
                  ELSE [st EXCEPT !.i = i, !.gcodes = Append(@, r.gc),
                                  !.pblock = SliceFrom(@, i)]

RECURSIVE RunLoop(_, _)
RunLoop(f, st) == IF st.at # "loop" THEN st ELSE RunLoop(f, LoopStep(f, st))

(***************************************************************************)
(* Parse: the Block made of the gcodes.                                    *)
(***************************************************************************)
\* LineNumberOf refusing the addresses below zero
LineNumberOfRefusesNegative(f, g) ==
  IF g.kind # "int32" \/ g.val < 0 THEN [ok |-> FALSE, gc |-> NilGcode]
  ELSE [ok |-> TRUE, gc |-> NewAddressableGcodeUint32(f, "N", Uint32OfInt32(g.val)).gc]

\* the line number of the first gcode: the type assertion to an int32
\* address, then the factory's uint32 gcode, whose error is dropped
LineNumberOf(f, g) ==
  IF g.kind # "int32" THEN [ok |-> FALSE, gc |-> NilGcode]
  ELSE [ok |-> TRUE, gc |-> NewAddressableGcodeUint32(f, "N", Uint32OfInt32(g.val)).gc]

\* Classify with the parameters of a numbered line taken one gcode too early
ClassifyCommandAmongParameters(gcodes, checksum, f) ==
  IF Len(gcodes) = 1
  THEN IF gcodes[1].word = "N"
       THEN LET ln == LineNumberOf(f, gcodes[1])
            IN IF ~ln.ok THEN [status |-> "error", block |-> ZeroBlock]
               ELSE [status |-> "ok",
                     block |-> MakeBlock(ln.gc, NilGcode, << >>, NilGcode, << >>, checksum, f)]
       ELSE [status |-> "ok",
             block |-> MakeBlock(NilGcode, gcodes[1], << >>, NilGcode, << >>, checksum, f)]
  ELSE IF Len(gcodes) = 0
  THEN \* gcodes[0] of an empty slice: index out of range
       [status |-> "panic", block |-> ZeroBlock]
  ELSE IF gcodes[1].word = "N"
       THEN LET ln == LineNumberOf(f, gcodes[1])
            IN IF ~ln.ok THEN [status |-> "error", block |-> ZeroBlock]
               ELSE [status |-> "ok",
                     block |-> MakeBlock(ln.gc, gcodes[2], SubSeq(gcodes, 2, Len(gcodes)),
                                         NilGcode, << >>, checksum, f)]
       ELSE [status |-> "ok",
             block |-> MakeBlock(NilGcode, gcodes[1], Tail(gcodes), NilGcode, << >>,
                                 checksum, f)]

Classify(gcodes, checksum, f) ==
  IF Len(gcodes) = 1
  THEN IF gcodes[1].word = "N"
       THEN LET ln == LineNumberOf(f, gcodes[1])
            IN IF ~ln.ok THEN [status |-> "error", block |-> ZeroBlock]
               ELSE [status |-> "ok",
                     block |-> MakeBlock(ln.gc, NilGcode, << >>, NilGcode, << >>, checksum, f)]
       ELSE [status |-> "ok",
             block |-> MakeBlock(NilGcode, gcodes[1], << >>, NilGcode, << >>, checksum, f)]
  ELSE IF Len(gcodes) = 0
  THEN \* gcodes[0] of an empty slice: index out of range
       [status |-> "panic", block |-> ZeroBlock]
  ELSE IF gcodes[1].word = "N"
       THEN LET ln == LineNumberOf(f, gcodes[1])
            IN IF ~ln.ok THEN [status |-> "error", block |-> ZeroBlock]
               ELSE [status |-> "ok",
                     block |-> MakeBlock(ln.gc, gcodes[2], SubSeq(gcodes, 3, Len(gcodes)),
                                         NilGcode, << >>, checksum, f)]
       ELSE [status |-> "ok",
             block |-> MakeBlock(NilGcode, gcodes[1], Tail(gcodes), NilGcode, << >>,
                                 checksum, f)]

\* what Parse returns, with the gcodes its loop collected
ParseReturn(r, gcodes) == [status |-> r.status, block |-> r.block, gcodes |-> gcodes]

\* Parse after the tokenizer loop ended in st
ParseAfterLoop(st, checksum, f) ==
  IF st.at = "return"
  THEN ParseReturn([status |-> "error", block |-> ZeroBlock], st.gcodes)
  ELSE ParseReturn(Classify(st.gcodes, checksum, f), st.gcodes)

Parse(s, checksum, gcodeFactory) ==
  LET f == IF gcodeFactory.nil THEN DefaultFactory ELSE gcodeFactory
  IN ParseAfterLoop(RunLoop(f, LoopStart(prepareSourceToParse(s))), checksum, f)

(***************************************************************************)
(* The inputs of the model.                                                *)
(***************************************************************************)
\* the tokens the bounded lines are made of
TokenPool ==
  { << "N", "1" >>, << "N", "-", "1" >>,
    << "G", "1" >>,
    << "X", "1", ".", "2", "5" >>,
    << "X", "\"", "a", "\"" >>, << "X", "\"", "A" >> }

\* the characters of the lines enumerated character by character
RawAlphabet == { "N", "g", "1", " ", "\t", "." }

SeqsUpTo(S, n) == UNION { [1..k -> S] : k \in 0..n }

TokenLines == { Join(ts, << " " >>) : ts \in SeqsUpTo(TokenPool, MaxTokens) }

RawLines == SeqsUpTo(RawAlphabet, MaxRawLen)

\* "N4 G92 E0*67 ;comentario"
LineWithCheckAndComment ==
  << "N", "4", " ", "G", "9", "2", " ", "E", "0", "*", "6", "7", " ",
     ";", "c", "o", "m", "e", "n", "t", "a", "r", "i", "o" >>

\* "N7 G1 X2.0 Y2.0 F3000.0"
ReferenceLine ==
  << "N", "7", " ", "G", "1", " ", "X", "2", ".", "0", " ", "Y", "2", ".", "0", " ",
     "F", "3", "0", "0", "0", ".", "0" >>

\* "N4 G92 E0"
PlainLine == << "N", "4", " ", "G", "9", "2", " ", "E", "0" >>

\* "N2147483647 G1", "N2147483648 G1", "N-2147483648 G1": line numbers at
\* the ends of the int32 range and beyond
LineNumberMaxInt32 ==
  << "N", "2", "1", "4", "7", "4", "8", "3", "6", "4", "7", " ", "G", "1" >>

LineNumberBeyondInt32 ==
  << "N", "2", "1", "4", "7", "4", "8", "3", "6", "4", "8", " ", "G", "1" >>

LineNumberMinInt32 ==
  << "N", "-", "2", "1", "4", "7", "4", "8", "3", "6", "4", "8", " ", "G", "1" >>

\* N"A" G1: a line number with a string address
LineNumberString == << "N", "\"", "A", "\"", " ", "G", "1" >>

Lines ==
  TokenLines \cup RawLines
    \cup { LineWithCheckAndComment, ReferenceLine, PlainLine, LineNumberMaxInt32,
           LineNumberBeyondInt32, LineNumberMinInt32, LineNumberString }

\* the characters of the texts given to the factory as string addresses
QuotedAlphabet == { "\"", "a", "\t" }

QuotedTexts == SeqsUpTo(QuotedAlphabet, MaxQuotedLen)

\* the hash engines a caller hands over: none, or an engine of either kind,
\* fresh or already used
Hashes ==
  { NilHash, [kind |-> "sum", acc |-> 0], [kind |-> "xor", acc |-> 77] }

\* the factories of the repository: none given (Parse then takes its own), or
\* its GcodeFactory
RepoFactories == { NilFactory, DefaultFactory }

\* and a factory of the caller's with another validation policy
AnyFactories == RepoFactories \cup { NoUint32Factory }

Commands == { NilGcode, GcodeInt32("G", 92), Unaddressable("G") }

MockLineNumber == GcodeUint32("N", Uint32OfInt32(4))

MockParameters == << GcodeInt32("E", 0) >>

MockChecksum == GcodeUint32("*", Uint32OfByte(67))

MockComment == << ";", "c", "o", "m", "e", "n", "t", "a", "r", "i", "o" >>

MockHash == [kind |-> "xor", acc |-> 0]

\* a second comment, for the options that set a section twice
OtherComment == << ";" >>

\* the setter calls an option makes
SetterPool(F) ==
  { SetLineNumber(NilGcode), SetLineNumber(MockLineNumber),
    SetParameters(<< >>, TRUE), SetParameters(MockParameters, FALSE),
    SetChecksum(NilGcode), SetChecksum(MockChecksum),
    SetComment(MockComment), SetComment(OtherComment),
    SetHash(NilHash), SetHash(MockHash) }
    \cup { SetGcodeFactory(f) : f \in F }

\* the option of the constructor's test that sets every section
FullOption(f) ==
  << SetLineNumber(MockLineNumber), SetParameters(MockParameters, FALSE),
     SetChecksum(MockChecksum), SetComment(MockComment), SetGcodeFactory(f),
     SetHash(MockHash) >>

\* the lists of options handed to New: up to MaxOptions options of one setter
\* call each, or the one option that sets every section
OptionLists(F) ==
  { [i \in 1..Len(ss) |-> << ss[i] >>] : ss \in SeqsUpTo(SetterPool(F), MaxOptions) }
    \cup { << FullOption(f) >> : f \in F \ { NilFactory } }

(***************************************************************************)
(* The state machine: a caller constructs one Block, by Parse or by New,   *)
(* and then calls its checksum methods in any order.                       *)
(***************************************************************************)
VARIABLES
  pc,       \* "start"; "built" once a constructor returned a Block; "failed"
            \* once it returned an error; "aborted" once a call panicked;
            \* "done" once a call on the factory alone returned; "loop"
            \* while Parse's tokenizer loop is followed
  block,    \* the Block
  out,      \* the last call and what it returned
  source,   \* the text given to Parse
  gcodes,   \* the gcodes Parse's tokenizer loop collected
  newArgs,  \* the command and the options given to New
  loop,     \* the variables of Parse's tokenizer loop, when it is followed
            \* iteration by iteration
  seen      \* the caller's notes: the first checksum calculated, the checksum
            \* stored by the first update, and how many of each it has seen

vars == << pc, block, out, source, gcodes, newArgs, loop, seen >>

\* the last call: its name, how it ended, the gcode and the boolean of the
\* checksum methods, and the values of the calls that only read the Block
Result(op, status, gc, ok) ==
  [op |-> op, status |-> status, gc |-> gc, ok |-> ok, vals |-> << >>]

ReadResult(op, vals) == [Result(op, "ok", NilGcode, FALSE) EXCEPT !.vals = vals]

Init ==
  /\ pc = "start"
  /\ block = ZeroBlock
  /\ out = Result("none", "ok", NilGcode, FALSE)
  /\ source = << >>
  /\ gcodes = << >>
  /\ newArgs = [command |-> NilGcode, options |-> << >>]
  /\ loop = LoopStart(<< >>)
  /\ seen = [calc |-> NilGcode, calcs |-> 0, upd |-> NilGcode, upds |-> 0]

\* where the caller stands after a constructor ended with status
AfterConstructor(status) ==
  CASE status = "ok" -> "built"
    [] status = "error" -> "failed"
    [] status = "panic" -> "aborted"

\* where the caller stands after a method ended with status
AfterMethod(status) == IF status = "panic" THEN "aborted" ELSE "built"

Bump(n) == IF n < 2 THEN n + 1 ELSE n

DoParse(F) ==
  /\ pc = "start"
  /\ \E s \in Lines, h \in Hashes, f \in F :
       \E r \in { Parse(s, h, f) } :
          /\ block' = r.block
          /\ gcodes' = r.gcodes
          /\ source' = s
          /\ out' = Result("Parse", r.status, NilGcode, FALSE)
          /\ pc' = AfterConstructor(r.status)
  /\ UNCHANGED << newArgs, loop, seen >>

DoNew(F) ==
  /\ pc = "start"
  /\ \E command \in Commands, options \in OptionLists(F) :
       \E r \in { New(command, options) } :
          /\ block' = r.block
          /\ out' = Result("New", r.status, NilGcode, FALSE)
          /\ pc' = AfterConstructor(r.status)
          /\ newArgs' = [command |-> command, options |-> options]
  /\ UNCHANGED << source, gcodes, loop, seen >>

DoCalculateChecksum ==
  /\ pc = "built"
  /\ \E r \in { CalculateChecksum(block) } :
        /\ block' = [block EXCEPT !.hash = r.hash]
        /\ out' = Result("CalculateChecksum", r.status, r.gc, FALSE)
        /\ pc' = AfterMethod(r.status)
        /\ seen' = IF r.status # "ok" THEN seen
                   ELSE [seen EXCEPT !.calc = IF seen.calcs = 0 THEN r.gc ELSE @,
                                     !.calcs = Bump(@)]
  /\ UNCHANGED << source, gcodes, newArgs, loop >>

DoUpdateChecksum ==
  /\ pc = "built"
  /\ \E r \in { UpdateChecksum(block) } :
        /\ block' = [block EXCEPT !.hash = r.out.hash, !.checksum = r.checksum]
        /\ out' = Result("UpdateChecksum", r.out.status, NilGcode, FALSE)
        /\ pc' = AfterMethod(r.out.status)
        /\ seen' = IF r.out.status # "ok" THEN seen
                   ELSE [seen EXCEPT !.upd = IF seen.upds = 0 THEN r.checksum ELSE @,
                                     !.upds = Bump(@)]
  /\ UNCHANGED << source, gcodes, newArgs, loop >>

DoVerifyChecksum ==
  /\ pc = "built"
  /\ \E r \in { VerifyChecksum(block) } :
        /\ block' = [block EXCEPT !.hash = r.hash]
        /\ out' = Result("VerifyChecksum", r.status, NilGcode, r.ok)
        /\ pc' = AfterMethod(r.status)
  /\ UNCHANGED << source, gcodes, newArgs, loop, seen >>

\* the caller prints the Block with each of its four serializers
DoToLine ==
  /\ pc = "built"
  /\ out' = ReadResult("ToLine", << ToLine(block), ToLineWithCheck(block),
                                   ToLineWithCheckAndComments(block), String(block) >>)
  /\ UNCHANGED << pc, block, source, gcodes, newArgs, loop, seen >>

\* the caller reads the sections of the Block with its accessors
DoAccessors ==
  /\ pc = "built"
  /\ out' = ReadResult("Accessors", << LineNumber(block), Command(block),
                                      Parameters(block), Checksum(block),
                                      Comment(block) >>)
  /\ UNCHANGED << pc, block, source, gcodes, newArgs, loop, seen >>

\* the caller gives the Block's ToLine() to Parse again, with the Block's
\* hash engine and factory, and prints the Block it gets
DoParseToLine ==
  /\ pc = "built"
  /\ \E r \in { Parse(ToLine(block), block.hash, block.gcodeFactory) } :
       /\ out' = [Result("ParseToLine", r.status, NilGcode, FALSE)
                    EXCEPT !.vals = << ToLine(block),
                                       IF r.status = "ok" THEN ToLine(r.block) ELSE << >> >>]
       /\ pc' = AfterMethod(r.status)
  /\ UNCHANGED << block, source, gcodes, newArgs, loop, seen >>

Next ==
  \/ DoParse(RepoFactories)
  \/ DoNew(RepoFactories)
  \/ DoCalculateChecksum
  \/ DoUpdateChecksum
  \/ DoVerifyChecksum
  \/ DoToLine
  \/ DoAccessors
  \/ DoParseToLine

\* the program with the repository's own factory
Spec == Init /\ [][Next]_vars

NextAnyFactory ==
  \/ DoParse(AnyFactories)
  \/ DoNew(AnyFactories)
  \/ DoCalculateChecksum
  \/ DoUpdateChecksum
  \/ DoVerifyChecksum
  \/ DoToLine
  \/ DoAccessors
  \/ DoParseToLine

\* the program with any factory the caller may supply
SpecAnyFactory == Init /\ [][NextAnyFactory]_vars

\* the caller asks the factory for a gcode with a string address
DoNewAddressableGcodeString ==
  /\ pc = "start"
  /\ \E w \in { "X", "+" }, text \in QuotedTexts :
       \E r \in { NewAddressableGcodeString(DefaultFactory, w, text) } :
          /\ out' = [Result("NewAddressableGcodeString",
                            IF r.ok THEN "ok" ELSE "error", r.gc, FALSE)
                       EXCEPT !.vals = << w, StringAddressVerdict(text) >>]
          /\ source' = text
          /\ pc' = "done"
  /\ UNCHANGED << block, gcodes, newArgs, loop, seen >>

\* the factory alone, asked for gcodes with string addresses
SpecStringAddress == Init /\ [][DoNewAddressableGcodeString]_vars

\* Parse normalises the text it is given and enters its tokenizer loop
DoPrepareSourceToParse ==
  /\ pc = "start"
  /\ \E s \in Lines :
       /\ source' = s
       /\ loop' = LoopStart(prepareSourceToParse(s))
  /\ pc' = "loop"
  /\ out' = Result("Parse", "ok", NilGcode, FALSE)
  /\ UNCHANGED << block, gcodes, newArgs, seen >>

\* one iteration of the tokenizer loop, with the factory Parse takes when it
\* is given none
DoLoopStep ==
  /\ pc = "loop"
  /\ loop.at = "loop"
  /\ loop' = LoopStep(DefaultFactory, loop)
  /\ UNCHANGED << pc, block, out, source, gcodes, newArgs, seen >>

NextLoop ==
  \/ DoPrepareSourceToParse
  \/ DoLoopStep

\* the tokenizer loop of Parse, iteration by iteration
SpecLoop == Init /\ [][NextLoop]_vars

(***************************************************************************)
(* What the properties are stated with: the tokens of a source text, the   *)
(* gcode a token stands for, the canonical line and its one-byte digests.  *)
(***************************************************************************)
\* the length of the run of characters other than white space s starts with
RECURSIVE WordRun(_)
WordRun(s) == IF s # << >> /\ ~IsSpace(Head(s)) THEN 1 + WordRun(Tail(s)) ELSE 0

\* the maximal runs of characters other than white space, in order
RECURSIVE Fields(_)
Fields(s) ==
  LET t == TrimLeft(s)
      n == WordRun(t)
  IN IF t = << >> THEN << >> ELSE << SliceTo(t, n) >> \o Fields(SliceFrom(t, n))

\* the tokens of the text given to Parse
SourceTokens == Fields(ToUpper(source))

\* the gcode a token stands for: unaddressable without address text, else
\* int32 when the text is a 32-bit decimal integer, else float32 when it is a
\* 32-bit float, else string
ExpectedGcode(tok) ==
  LET addr == Tail(tok)
  IN IF addr = << >> THEN Unaddressable(tok[1])
     ELSE IF ParseInt(addr).ok THEN GcodeInt32(tok[1], ParseInt(addr).val)
     ELSE IF ParseFloat(addr).ok THEN GcodeFloat32(tok[1], ParseFloat(addr))
     ELSE GcodeString(tok[1], addr)

\* the tokens the repository's factory builds no gcode for
RefusedToken(tok) ==
  \/ ~WordValid(tok[1])
  \/ ExpectedGcode(tok).kind = "string" /\ StringAddressVerdict(Tail(tok)) # "End"

\* the Block was returned by Parse
Parsed == pc = "built" /\ gcodes # << >>

\* the texts of gs, one space between two of them
RECURSIVE Spaced(_)
Spaced(gs) ==
  IF gs = << >> THEN << >>
  ELSE IF Len(gs) = 1 THEN GcodeText(gs[1])
  ELSE GcodeText(gs[1]) \o << " " >> \o Spaced(Tail(gs))

\* the line of a Block without its check section and its comment
CanonicalLine(ln, cmd, params) ==
  Spaced((IF ln = NilGcode THEN << >> ELSE << ln >>)
           \o (IF cmd = NilGcode THEN << >> ELSE << cmd >>) \o params)

RECURSIVE SumOfBytes(_)
SumOfBytes(s) == IF s = << >> THEN 0 ELSE (SumOfBytes(Tail(s)) + Ord(Head(s))) % 256

RECURSIVE XorOfBytes(_)
XorOfBytes(s) == IF s = << >> THEN 0 ELSE Xor8(XorOfBytes(Tail(s)), Ord(Head(s)), 8)

\* the first digest byte of a freshly reset engine of the kind fed with s
FirstDigestByte(kind, s) == IF kind = "sum" THEN SumOfBytes(s) ELSE XorOfBytes(s)

\* the digest byte of the Block's canonical line under its engine
ExpectedDigest ==
  FirstDigestByte(block.hash.kind,
                  CanonicalLine(block.lineNumber, block.command, block.parameters))

\* the setter calls the options given to New make, in order
RECURSIVE SetterCalls(_)
SetterCalls(options) ==
  IF options = << >> THEN << >> ELSE Head(options) \o SetterCalls(Tail(options))

\* the last of the calls that sets the field, or a call with zero values when
\* none does
LastCall(calls, field) ==
  LET at == { i \in 1..Len(calls) : calls[i].field = field }
  IN IF at = {} THEN Setter(field, NilGcode, << >>, FALSE, << >>, NilHash, NilFactory)
     ELSE calls[CHOOSE i \in at : \A j \in at : j <= i]

\* the Block of a command and setter calls: for each section the argument of
\* the last call that sets it
BlockOfCalls(command, calls) ==
  MakeBlock(LastCall(calls, "lineNumber").gc, command, LastCall(calls, "parameters").params,
            LastCall(calls, "checksum").gc, LastCall(calls, "comment").text,
            LastCall(calls, "hash").hash, LastCall(calls, "gcodeFactory").factory)

\* s is the beginning of t
IsPrefix(s, t) == Len(s) <= Len(t) /\ SubSeq(t, 1, Len(s)) = s

\* s is a quoted string: at least two characters, a quote first and last,
\* between them no tab, carriage return or line feed, and quotes only in
\* adjacent pairs
WellQuoted(s) ==
  LET inner == 2..(Len(s) - 1)
      pairs == { i \in inner : i + 1 \in inner /\ s[i] = "\"" /\ s[i + 1] = "\"" }
  IN /\ Len(s) >= 2
     /\ s[1] = "\""
     /\ s[Len(s)] = "\""
     /\ \A i \in inner : s[i] \notin { "\t", "\r", "\n" }
     /\ \E P \in SUBSET pairs :
          /\ \A p \in P : p + 1 \notin P
          /\ \A i \in inner : s[i] = "\"" => (i \in P \/ i - 1 \in P)

\* how many tokens s has: the places where a character other than a space
\* follows a space or starts s
TokenCount(s) ==
  Cardinality({ i \in 1..Len(s) : s[i] # " " /\ (i = 1 \/ s[i - 1] = " ") })

N4 == GcodeUint32("N", Uint32OfInt32(4))

G92 == GcodeInt32("G", 92)

E0 == GcodeInt32("E", 0)

(***************************************************************************)
(* The properties.                                                         *)
(***************************************************************************)
\* C1: Parse, CalculateChecksum, UpdateChecksum and VerifyChecksum return a
\* result or an error and never abort the process, for every text given to
\* Parse and every Block obtained from New or Parse.
C1_NeverAborts == out.status # "panic"

\* C2: every Block returned without error by New or by Parse has a command.
C2_CommandMandatory == pc = "built" => block.command # NilGcode

\* C3: Parse of "N4 G92 E0*67 ;comentario" succeeds with line number N4,
\* command G92 and parameters exactly [E0], and ToLine() of the Block is
\* "N4 G92 E0".
C3_ParseLineWithCheckAndComment ==
  (out.op = "Parse" /\ source = LineWithCheckAndComment)
    => /\ out.status = "ok"
       /\ block.lineNumber = N4
       /\ block.command = G92
       /\ block.parameters = << E0 >>
       /\ ToLine(block) = PlainLine

\* C4, as claimed: the checksum of the Block parsed from
\* "N7 G1 X2.0 Y2.0 F3000.0", calculated with the sum-of-bytes-modulo-256
\* engine, is 85.
C4_SumEngineGives85 ==
  (source = ReferenceLine /\ out.op = "CalculateChecksum" /\ out.status = "ok"
     /\ block.hash.kind = "sum")
    => out.gc = GcodeUint32("*", Uint32OfByte(85))

\* C4, amended: the checksum of the Block parsed from
\* "N7 G1 X2.0 Y2.0 F3000.0" is 85 when calculated with the engine that takes
\* the exclusive or of the bytes of ToLine(); the sum of those bytes modulo
\* 256 is 181.
C4_XorEngineGives85 ==
  (source = ReferenceLine /\ out.op = "CalculateChecksum" /\ out.status = "ok")
    => out.gc = GcodeUint32("*", Uint32OfByte(IF block.hash.kind = "xor" THEN 85 ELSE 181))

C4_Witness ==
  /\ source = ReferenceLine
  /\ out.op = "CalculateChecksum"
  /\ out.status = "ok"
  /\ block.hash.kind = "xor"
  /\ block.parameters # << >>

\* C5: CalculateChecksum resets the engine, feeds it exactly the bytes of the
\* line number, the command and the parameters, and returns the gcode of word
\* "*" whose address is the first digest byte, in 0..255; the stored checksum
\* and the comment have no part in it.
C5_ChecksumOfCanonicalLine ==
  (out.op = "CalculateChecksum" /\ out.status = "ok")
    => /\ ExpectedDigest \in 0..255
       /\ out.gc = GcodeUint32("*", Uint32OfByte(ExpectedDigest))
       /\ HashSum(block.hash) = << ExpectedDigest >>

C5_Witness ==
  /\ out.op = "CalculateChecksum"
  /\ out.status = "ok"
  /\ block.checksum # NilGcode
  /\ block.comment # << >>
  /\ block.lineNumber # NilGcode
  /\ block.parameters # << >>

\* C6: every CalculateChecksum on the unchanged Block returns the value the
\* first one returned, whatever ran in between and whatever the engine held;
\* every UpdateChecksum stores the checksum the first one stored.
C6_Deterministic ==
  /\ (out.op = "CalculateChecksum" /\ out.status = "ok") => out.gc = seen.calc
  /\ (out.op = "UpdateChecksum" /\ out.status = "ok") => block.checksum = seen.upd

C6_Witness ==
  /\ out.op = "UpdateChecksum"
  /\ out.status = "ok"
  /\ seen.upds = 2
  /\ seen.calcs = 2
  /\ block.checksum.lo # 0

\* C7: VerifyChecksum on a Block without stored checksum returns false and an
\* error, and does not panic; with a stored checksum it returns true exactly
\* when the checksum it calculates has the word and the value of the stored
\* one.
C7_VerifyChecksum ==
  out.op = "VerifyChecksum"
    => IF block.checksum = NilGcode
       THEN out.status = "error" /\ ~out.ok
       ELSE out.ok <=> /\ out.status = "ok"
                       /\ block.checksum = GcodeUint32("*", Uint32OfByte(ExpectedDigest))

C7_Witness ==
  /\ out.op = "VerifyChecksum"
  /\ source = ReferenceLine
  /\ block.checksum = NilGcode
  /\ out.status = "error"

\* C8: Parse makes one gcode per token, in order: the first byte is the word,
\* an empty remainder gives an unaddressable gcode, any other remainder an
\* int32 address if it is a decimal 32-bit integer, else a float32 address if
\* it is a 32-bit float, else a string address.  The loop stops short only at
\* a token the factory refuses.
C8_TokenTyping ==
  LET toks == SourceTokens
  IN /\ Len(gcodes) <= Len(toks)
     /\ \A i \in 1..Len(gcodes) : gcodes[i] = ExpectedGcode(toks[i])
     /\ \/ Len(gcodes) = Len(toks)
        \/ pc = "failed" /\ RefusedToken(toks[Len(gcodes) + 1])

C8_Witness ==
  /\ Parsed
  /\ Len(gcodes) = 3
  /\ { gcodes[i].kind : i \in 1..3 } = { "int32", "float32", "string" }

\* C9: when the first token's word is N, it is the line number, the second
\* token the command and the tokens from the third on the parameters;
\* otherwise the first token is the command and the tokens from the second on
\* the parameters, in source order.
C9_Classification ==
  Parsed =>
    LET toks == SourceTokens
        gc(i) == ExpectedGcode(toks[i])
    IN IF toks[1][1] = "N"
       THEN /\ block.lineNumber = GcodeUint32("N", Uint32OfInt32(gc(1).val))
            /\ Len(toks) >= 2 => block.command = gc(2)
            /\ block.parameters = [i \in 1..(Len(toks) - 2) |-> gc(i + 2)]
       ELSE /\ block.lineNumber = NilGcode
            /\ block.command = gc(1)
            /\ block.parameters = [i \in 1..(Len(toks) - 1) |-> gc(i + 1)]

C9_Witness ==
  /\ Parsed
  /\ SourceTokens[1][1] = "N"
  /\ Len(block.parameters) = 3
  /\ block.parameters[1] # block.parameters[2]
  /\ block.command.kind = "int32"

\* C10: when a factory constructor fails during Parse, for a token or for the
\* unsigned line number, Parse returns an error and no Block: a Block it
\* returns holds every section the line supplied.
C10_FactoryFailureAborts ==
  Parsed =>
    /\ Len(gcodes) = Len(SourceTokens)
    /\ gcodes[1].word = "N" => block.lineNumber # NilGcode

\* C11: New returns an error and no Block when the command is nil or when a
\* setter called by an option was given nil; otherwise it returns a Block
\* with the command and, for every other section, the argument of the last
\* setter registered for it (the zero value when none was).
C11_NewAllOrNothing ==
  out.op = "New" =>
    LET calls == SetterCalls(newArgs.options)
    IN IF newArgs.command = NilGcode \/ \E i \in 1..Len(calls) : calls[i].isNil
       THEN out.status = "error" /\ pc = "failed" /\ block = ZeroBlock
       ELSE out.status = "ok" /\ pc = "built"
              /\ block = BlockOfCalls(newArgs.command, calls)

C11_Witness ==
  /\ out.op = "New"
  /\ out.status = "ok"
  /\ Len(newArgs.options) = 2
  /\ newArgs.options[1] = << SetComment(MockComment) >>
  /\ newArgs.options[2] = << SetComment(OtherComment) >>
  /\ block.comment = OtherComment

\* C12: ToLine() is the texts of the line number (if any), the command and
\* the parameters, in order, one space between two of them; ToLineWithCheck()
\* is ToLine(), followed by a space and the checksum's text when a checksum
\* is stored; ToLineWithCheckAndComments() and String() are
\* ToLineWithCheck(), followed by a space and the comment when the comment is
\* not empty.  Each output is the beginning of the next.
C12_Serializers ==
  out.op = "ToLine" =>
    LET line == CanonicalLine(block.lineNumber, block.command, block.parameters)
        withCheck == IF block.checksum = NilGcode THEN line
                     ELSE line \o << " " >> \o GcodeText(block.checksum)
        withComments == IF block.comment = << >> THEN withCheck
                        ELSE withCheck \o << " " >> \o block.comment
    IN /\ out.vals = << line, withCheck, withComments, withComments >>
       /\ IsPrefix(out.vals[1], out.vals[2])
       /\ IsPrefix(out.vals[2], out.vals[3])

C12_Witness ==
  /\ out.op = "ToLine"
  /\ block.lineNumber # NilGcode
  /\ block.parameters # << >>
  /\ block.checksum # NilGcode
  /\ block.comment # << >>
  /\ Len(out.vals[1]) < Len(out.vals[2])
  /\ Len(out.vals[2]) < Len(out.vals[3])

\* C13: the validator accepts a text exactly when it has at least two
\* characters, starts and ends with a double quote, has every double quote
\* between them in an immediately doubled pair and no tab, carriage return or
\* line feed between them; three quotes are refused with a quote error, a tab
\* between two quotes with an invalid-characters error, the empty text with a
\* too-short error.
C13_QuotedString ==
  out.op = "NewAddressableGcodeString" =>
    /\ out.vals[2] = "End" <=> WellQuoted(source)
    /\ out.status = "ok" <=> (WordValid(out.vals[1]) /\ WellQuoted(source))
    /\ out.status = "ok" => out.gc = GcodeString(out.vals[1], source)
    /\ source = << "\"", "\"", "\"" >> => out.vals[2] = "QuoteError"
    /\ source = << "\"", "\t", "\"" >> => out.vals[2] = "InvalidChars"
    /\ source = << >> => out.vals[2] = "TooShort"

C13_Witness ==
  /\ out.op = "NewAddressableGcodeString"
  /\ source = << "\"", "\"", "\"", "\"" >>
  /\ out.status = "ok"
  /\ out.vals[2] = "End"

\* C14: for every line Parse accepts, Parse of ToLine() of the Block
\* succeeds and gives a Block whose ToLine() is the same text.
C14_RoundTrip ==
  (Parsed /\ out.op = "ParseToLine")
    => out.status = "ok" /\ out.vals[2] = out.vals[1]

\* C15: no call on a constructed Block changes its line number, command,
\* parameters or comment; the stored checksum changes only by an
\* UpdateChecksum that succeeds, and stays as it is when the calculation
\* fails.
C15_Frame ==
  [][pc = "built" =>
       /\ block'.lineNumber = block.lineNumber
       /\ block'.command = block.command
       /\ block'.parameters = block.parameters
       /\ block'.comment = block.comment
       /\ block'.checksum # block.checksum
            => out'.op = "UpdateChecksum" /\ out'.status = "ok"]_vars

C15_Witness ==
  /\ out.op = "UpdateChecksum"
  /\ out.status = "error"
  /\ pc = "built"
  /\ block.checksum = MockChecksum
  /\ block.comment # << >>

C17_VerifyAfterUpdate ==
  (out.op = "VerifyChecksum" /\ seen.upds >= 1) => out.status = "ok" /\ out.ok

C17_Witness ==
  /\ out.op = "VerifyChecksum"
  /\ out.ok
  /\ seen.upds = 2
  /\ seen.calcs = 2
  /\ Parsed
  /\ block.parameters # << >>
  /\ block.checksum = seen.upd

\* C18: the tokenizer loop ends for every text, since each iteration either
\* makes the remaining text, which is finite, at least one byte shorter or
\* leaves the loop; and when the loop ends without error it has made one
\* gcode for each token of the normalised text, the empty tokens between
\* separators dropped.
C18_LoopTerminates ==
  /\ [][pc = "loop" => \/ Len(loop'.pblock) < Len(loop.pblock)
                        \/ loop'.at # "loop"]_vars
  /\ [](loop.at = "break"
          => Len(loop.gcodes) = TokenCount(prepareSourceToParse(source)))

C18_Witness ==
  /\ pc = "loop"
  /\ loop.at = "break"
  /\ Len(loop.gcodes) = 2
  /\ loop.i = -1
  /\ \E i \in 1..Len(source) : source[i] = "\t"

====
